---- MODULE Spec2Model ----
(***************************************************************************)
(* A model of oamap/source/parquet.py: ParquetFile.__init__ (file framing, *)
(* footer parse, schema flattening) and ParquetFile.column (chunk lookup,  *)
(* codec dispatch, the two page readers, page decoding, the result tuple). *)
(*                                                                         *)
(* A file is a sequence of cells.  A cell is one byte, or one Thrift       *)
(* compact-protocol structure (a PageHeader or the FileMetaData footer):   *)
(* the Thrift codec is an external library, so an encoded structure is     *)
(* kept as one cell of length 1 that decodes to the structure it holds.    *)
(* Python's None is the empty tuple <<>>; an optional integer n is <<n>>.  *)
(* Python indices are kept 0-based: At(s, i) is s[i].                      *)
(***************************************************************************)
EXTENDS Integers, Sequences, FiniteSets, TLC

VARIABLES
    kind,       \* "memmap": the numpy-array handle; "file": the read/seek handle
    bytes,      \* the file's content (self.memmap, or what self.file reads)
    filepos,    \* the read cursor of the stream handle self.file
    env,        \* the installed libraries: snappy present, numpy's frombuffer
    pf,         \* the ParquetFile object under construction / constructed
    callers,    \* the threads that call ParquetFile.column on the object
    thr         \* per thread: the activation of ParquetFile.column it runs

vars == <<kind, bytes, filepos, env, pf, callers, thr>>

(***************************** bounds **************************************)
MaxSchema == 3      \* schema elements in a footer, the root included
MaxPages == 2       \* pages laid out in a file
MaxNumValues == 2   \* num_values of a chunk or of a page

(************************** Python helpers *********************************)
None == <<>>

Min(a, b) == IF a < b THEN a ELSE b
Max(a, b) == IF a > b THEN a ELSE b

At(s, i) == s[i + 1]

\* s[a:b] with Python's rules for negative and out-of-range bounds
PySlice(s, a, b) ==
    LET n == Len(s)
        norm(x) == IF x < 0 THEN Max(x + n, 0) ELSE Min(x, n)
        lo == norm(a)
        hi == norm(b)
    IN IF hi <= lo THEN <<>> ELSE SubSeq(s, lo + 1, hi)

Byte(v) == [tag |-> "byte", v |-> v]
Bytes(s) == [i \in 1..Len(s) |-> Byte(s[i])]

\* ndarray.tostring() of a slice: the raw bytes (an encoded structure's bytes
\* are not those of any magic marker)
tostring(cells) == [i \in 1..Len(cells) |-> IF cells[i].tag = "byte" THEN cells[i].v ELSE 0 - 1]

PAR1 == <<80, 65, 82, 49>>

\* .view("<i4") / struct.unpack("<i") of 4 bytes: little-endian signed 32 bit
le32(b) ==
    b[1] + 256 * b[2] + 65536 * b[3] + 16777216 * (IF b[4] >= 128 THEN b[4] - 256 ELSE b[4])

\* the little-endian bytes of a small non-negative integer
enc32(n) == <<n % 256, (n \div 256) % 256, (n \div 65536) % 256, (n \div 16777216) % 256>>

(************************ FileMetaData / schema ****************************)
RepTypes == {"REQUIRED", "OPTIONAL", "REPEATED"}
FieldNames == <<"root", "a", "b", "c", "d", "e">>

\* a SchemaElement as Thrift parses it, before recurse() enriches it
SchemaElement(name, rep, nc) ==
    [name |-> name, repetition_type |-> rep, num_children |-> nc,
     children |-> None, path |-> None, required |-> None,
     maxdef |-> None, maxrep |-> None, visits |-> 0]

\* recurse(index, path, maxdef, maxrep), lines 126-140.  S carries
\* self.footer.schema, the returned index and the exception raised, if any.
RECURSIVE recurse(_, _, _, _, _)
RECURSIVE recurse_children(_, _, _, _)

recurse_children(S, self, index, k) ==
    IF k <= 0 THEN [S EXCEPT !.index = index]
    ELSE IF index + 1 >= Len(S.schema) THEN [S EXCEPT !.err = <<"IndexError">>]
    ELSE LET S1 == [S EXCEPT !.schema[self + 1].children = Append(@, index + 1)]
             me == At(S1.schema, self)
             R  == recurse(S1, index + 1, me.path, me.maxdef[1], me.maxrep[1])
         IN IF R.err # None THEN R ELSE recurse_children(R, self, R.index, k - 1)

RequiredOf_NotRequired(e) == e.repetition_type # "REQUIRED"
RequiredOf(e) == e.repetition_type = "REQUIRED"

recurse(S, index, path, maxdef, maxrep) ==
    IF index >= Len(S.schema) THEN [S EXCEPT !.err = <<"IndexError">>]
    ELSE LET e == At(S.schema, index)
             nc == IF e.num_children = None THEN 0 ELSE e.num_children[1]
             req == RequiredOf(e)
             e1 == [e EXCEPT !.num_children = <<nc>>,
                             !.children = <<>>,
                             !.path = path \o <<e.name>>,
                             !.required = <<req>>,
                             !.maxdef = <<maxdef + (IF req THEN 0 ELSE 1)>>,
                             !.maxrep = <<maxrep + (IF req THEN 1 ELSE 0)>>,
                             !.visits = @ + 1]
             S1 == [S EXCEPT !.schema[index + 1] = e1]
         IN recurse_children(S1, index, index, nc)

\* lines 142-147: the loop over the root's direct children
RECURSIVE flatten(_, _)
flatten(S, index) ==
    IF ~(index + 1 < Len(S.schema)) THEN S
    ELSE LET S1 == [S EXCEPT !.fields = Append(@, index + 1)]
             R  == recurse(S1, index + 1, <<>>, 0, 0)
         IN IF R.err # None THEN R ELSE flatten(R, R.index)

(***************************** __init__ ************************************)
\* lines 116-119
MagicError_HeaderOnly(headermagic, footermagic) ==
    IF headermagic # PAR1 THEN <<"ValueError">> ELSE None

MagicError(headermagic, footermagic) ==
    IF headermagic # PAR1 THEN <<"ValueError">>
    ELSE IF footermagic # PAR1 THEN <<"ValueError">>
    ELSE None

\* One Thrift structure read through TFileTransport at cell i of content b.
\* Buffer handle (lines 83-91): a position outside the array raises IOError.
\* Stream handle (line 112): file.read at end of file returns b"" and thriftpy
\* raises its end-of-file error.  Bytes that are not an encoded structure of
\* the expected type do not decode.
ReadStruct(k, b, i, tag) ==
    IF ~(0 <= i /\ i < Len(b))
    THEN [err |-> IF k = "memmap" THEN <<"IOError">> ELSE <<"TTransportException">>, val |-> None]
    ELSE IF At(b, i).tag # tag THEN [err |-> <<"TProtocolException">>, val |-> None]
    ELSE [err |-> None, val |-> <<At(b, i)>>]

NewFile == [status |-> "new", error |-> None, footer |-> None, fields |-> None]

\* ParquetFile.__init__, lines 73-147, on a handle of kind k over content b:
\* the object it leaves and the stream cursor
construct(k, b) ==
    LET n == Len(b)
        headermagic == tostring(PySlice(b, 0, 4))
        footermagic == tostring(PySlice(b, n - 4, n))
        footerbytes == le32(tostring(PySlice(b, n - 8, n - 4)))
        index == n - (footerbytes + 8)
        merr == MagicError(headermagic, footermagic)
        rd == ReadStruct(k, b, index, "FileMetaData")
        S == flatten([schema |-> rd.val[1].schema, index |-> 0, err |-> None, fields |-> <<>>], 0)
        parsed == <<[rd.val[1] EXCEPT !.schema = S.schema]>>
    IN [filepos |-> IF merr = None /\ rd.err = None THEN index + 1 ELSE index,
        pf |-> IF merr # None THEN [NewFile EXCEPT !.status = "failed", !.error = merr]
               ELSE IF rd.err # None THEN [NewFile EXCEPT !.status = "failed", !.error = rd.err]
               ELSE IF S.err # None
                    THEN [status |-> "failed", error |-> S.err, footer |-> parsed, fields |-> <<S.fields>>]
               ELSE [status |-> "open", error |-> None, footer |-> parsed, fields |-> <<S.fields>>]]

Construct ==
    /\ pf.status = "new"
    /\ LET r == construct(kind, bytes)
       IN /\ pf' = r.pf
          /\ filepos' = IF kind = "file" THEN r.filepos ELSE filepos
    /\ UNCHANGED <<kind, bytes, env, callers, thr>>

(************************ column: pure pieces ******************************)
Threads == {"t1", "t2"}

Codecs == {"UNCOMPRESSED", "SNAPPY", "GZIP", "LZO", "BROTLI", "LZ4", "ZSTD"}

\* the activation record of one call of ParquetFile.column: its arguments, the
\* locals of column() and of the pagereader generator, and its outcome.
\* touched, sumnv and yielded record what the page reader has done so far.
IdleThread ==
    [pc |-> "idle",
     args |-> [schema |-> 0, deflevels |-> TRUE, replevels |-> TRUE, data |-> TRUE, parallel |-> FALSE],
     footercolumn |-> None, decompress |-> "", started |-> FALSE,
     index |-> 0, start |-> 0, stop |-> 0, header |-> None, compressed |-> <<>>,
     deflevelsegs |-> None, replevelsegs |-> None, datasegs |-> None,
     outcome |-> [kind |-> "", error |-> "", out |-> <<>>],
     touched |-> FALSE, sumnv |-> 0, yielded |-> FALSE]

Raise(L, e) == [L EXCEPT !.pc = "done", !.outcome = [kind |-> "raise", error |-> e, out |-> <<>>]]

\* lines 153-157: the first chunk of the row group whose path_in_schema is path
RECURSIVE Locate(_, _, _)
Locate(columns, path, i) ==
    IF i >= Len(columns) THEN None
    ELSE IF At(columns, i).meta_data.path_in_schema = path THEN <<i>>
    ELSE Locate(columns, path, i + 1)

\* lines 193-213: the decompress function chosen, or the exception raised
CodecDispatch_Swapped(codec, snappy) ==
    IF codec = "UNCOMPRESSED" THEN [err |-> "", decompress |-> "UNCOMPRESSED"]
    ELSE IF codec = "SNAPPY"
         THEN IF ~snappy THEN [err |-> "ImportError", decompress |-> ""]
              ELSE [err |-> "", decompress |-> "SNAPPY"]
    ELSE IF codec = "GZIP" THEN [err |-> "", decompress |-> "GZIP"]
    ELSE IF codec \in {"LZO", "BROTLI", "LZ4"} THEN [err |-> "NotImplementedError", decompress |-> ""]
    ELSE [err |-> "AssertionError", decompress |-> ""]

CodecDispatch(codec, snappy) ==
    IF codec = "UNCOMPRESSED" THEN [err |-> "", decompress |-> "UNCOMPRESSED"]
    ELSE IF codec = "SNAPPY"
         THEN IF ~snappy THEN [err |-> "ImportError", decompress |-> ""]
              ELSE [err |-> "", decompress |-> "SNAPPY"]
    ELSE IF codec = "GZIP" THEN [err |-> "", decompress |-> "GZIP"]
    ELSE IF codec = "LZO" THEN [err |-> "NotImplementedError", decompress |-> ""]
    ELSE IF codec = "BROTLI" THEN [err |-> "NotImplementedError", decompress |-> ""]
    ELSE IF codec = "LZ4" THEN [err |-> "NotImplementedError", decompress |-> ""]
    ELSE IF codec = "ZSTD" THEN [err |-> "NotImplementedError", decompress |-> ""]
    ELSE [err |-> "AssertionError", decompress |-> ""]

\* snappy.decompress on a stream of one literal element: the uncompressed
\* length, the literal tag (length - 1) * 4, the bytes; anything else is corrupt
SnappyDecompress(b) ==
    IF Len(b) = 1 /\ b[1] = 0 THEN [err |-> "", val |-> <<>>]
    ELSE IF Len(b) >= 2 /\ b[1] >= 1 /\ b[2] = (b[1] - 1) * 4 /\ Len(b) = b[1] + 2
         THEN [err |-> "", val |-> SubSeq(b, 3, Len(b))]
    ELSE [err |-> "UncompressError", val |-> <<>>]

\* lines 194-203: decompress(compressed, ...).  The GZIP function names
\* compresseddata, which is bound nowhere: calling it raises NameError.
Decompress(which, b) ==
    IF which = "UNCOMPRESSED" THEN [err |-> "", val |-> b]
    ELSE IF which = "SNAPPY" THEN SnappyDecompress(b)
    ELSE [err |-> "NameError", val |-> <<>>]

\* lines 271-273
bitwidth_zero(maxvalue) == [err |-> "", val |-> 0]
bitwidth(maxvalue) == [err |-> "NotImplementedError", val |-> 0]

\* ndarray.view of a uint8 array as items of w bytes, each decoded by item
RECURSIVE Items(_, _)
Items(b, w) == IF Len(b) < w THEN <<>> ELSE <<SubSeq(b, 1, w)>> \o Items(SubSeq(b, w + 1, Len(b)), w)

\* an integer item: 4 bytes are one little-endian signed word; 8 bytes are
\* kept as the pair <<low word, high word>> of the 64-bit value
leint(b) == IF Len(b) = 4 THEN le32(b) ELSE <<le32(SubSeq(b, 1, 4)), le32(SubSeq(b, 5, 8))>>

view(b, w, signedint) ==
    IF Len(b) % w # 0 THEN [err |-> "ValueError", val |-> <<>>]
    ELSE LET it == Items(b, w)
         IN [err |-> "", val |-> [i \in 1..Len(it) |-> IF signedint THEN leint(it[i]) ELSE it[i]]]

\* lines 275-302
plain(data, type) ==
    IF type = "BOOLEAN" THEN [err |-> "NotImplementedError", val |-> <<>>]
    ELSE IF type = "INT32" THEN view(data, 4, TRUE)
    ELSE IF type = "INT64" THEN view(data, 8, TRUE)
    ELSE IF type = "INT96" THEN view(data, 12, FALSE)
    ELSE IF type = "FLOAT" THEN view(data, 4, FALSE)
    ELSE IF type = "DOUBLE" THEN view(data, 8, FALSE)
    ELSE IF type = "BYTE_ARRAY" THEN [err |-> "NotImplementedError", val |-> <<>>]
    ELSE IF type = "FIXED_LEN_BYTE_ARRAY" THEN [err |-> "NotImplementedError", val |-> <<>>]
    ELSE [err |-> "AssertionError", val |-> <<>>]

\* lines 246-251: list.append of a page's segment; a list is kept as the
\* concatenation of its segments, None while it is empty
AppendSeg(segs, on, seg) ==
    IF on /\ seg # None THEN (IF segs = None THEN seg ELSE <<segs[1] \o seg[1]>>) ELSE segs

\* lines 253-269
Out_Always3(a, L) == <<L.deflevelsegs, L.replevelsegs, L.datasegs>>

Out(a, L) ==
    (IF a.deflevels THEN <<L.deflevelsegs>> ELSE <<>>)
    \o (IF a.replevels THEN <<L.replevelsegs>> ELSE <<>>)
    \o (IF a.data THEN <<L.datasegs>> ELSE <<>>)

Return(L) == [L EXCEPT !.pc = "done", !.outcome = [kind |-> "return", error |-> "", out |-> Out(L.args, L)]]

TheFooter == pf.footer[1]
Columns == TheFooter.row_groups[1].columns
SchemaOf(L) == At(TheFooter.schema, L.args.schema)
ChunkOf(L) == At(Columns, L.footercolumn[1])

\* whether every transport reads at the handle's one cursor (lines 109-112)
\* or at an index of its own (lines 80-87)
SharedCursor_Always == TRUE
SharedCursor == kind = "file"

\* lines 149-219 up to the creation of the generator
call(a) ==
    LET L0 == [IdleThread EXCEPT !.args = a]
        fc == Locate(Columns, At(TheFooter.schema, a.schema).path, 0)
        md == At(Columns, fc[1]).meta_data
        cd == CodecDispatch(md.codec, env.snappy)
    IN IF a.parallel THEN Raise(L0, "NotImplementedError")
       ELSE IF fc = None THEN Raise(L0, "NameError")
       ELSE IF cd.err # "" THEN Raise([L0 EXCEPT !.footercolumn = fc], cd.err)
       ELSE [L0 EXCEPT !.pc = "next", !.footercolumn = fc, !.decompress = cd.decompress,
                       !.index = At(Columns, fc[1]).file_offset]

next_page_le(L, fp) ==
    LET L1 == IF L.started THEN [L EXCEPT !.start = L.stop]
              ELSE [L EXCEPT !.started = TRUE, !.start = 0, !.stop = 0]
        fp1 == IF ~L.started /\ SharedCursor THEN L.index ELSE fp
    IN IF L1.start <= ChunkOf(L).meta_data.num_values
       THEN [L |-> [L1 EXCEPT !.pc = "header"], fp |-> fp1]
       ELSE [L |-> Return(L1), fp |-> fp1]

\* the generator resumed: its first lines (163-164, 180-182) or line 175/191,
\* then the loop test and the transport of the next page; when the test fails
\* the for loop of line 219 ends and lines 253-269 build the result
next_page(L, fp) ==
    LET L1 == IF L.started THEN [L EXCEPT !.start = L.stop]
              ELSE [L EXCEPT !.started = TRUE, !.start = 0, !.stop = 0]
        fp1 == IF ~L.started /\ SharedCursor THEN L.index ELSE fp
    IN IF L1.start < ChunkOf(L).meta_data.num_values
       THEN [L |-> [L1 EXCEPT !.pc = "header"], fp |-> fp1]
       ELSE [L |-> Return(L1), fp |-> fp1]

\* header.read(pin), and line 170
read_header(L, fp) ==
    LET pos == IF SharedCursor THEN fp ELSE L.index
        rd == ReadStruct(kind, bytes, pos, "PageHeader")
        L1 == [L EXCEPT !.touched = TRUE]
    IN IF rd.err # None THEN [L |-> Raise(L1, rd.err[1]), fp |-> fp]
       ELSE [L |-> [L1 EXCEPT !.pc = "payload", !.header = rd.val,
                              !.index = IF SharedCursor THEN @ ELSE pos + 1],
             fp |-> IF SharedCursor THEN pos + 1 ELSE fp]

\* lines 171-174 and 188-190: the payload, the value range, the yield
read_payload(L, fp) ==
    LET h == L.header[1]
        cps == h.compressed_page_size
        pos == IF SharedCursor THEN fp ELSE L.index
        n == Len(bytes)
        toend == cps = None \/ cps[1] < 0
        data == IF kind = "memmap" THEN PySlice(bytes, pos, pos + cps[1])
                ELSE IF toend THEN PySlice(bytes, pos, n)
                ELSE PySlice(bytes, pos, pos + cps[1])
        pos1 == IF kind = "memmap" THEN pos + cps[1] ELSE pos + Len(data)
        L1 == [L EXCEPT !.touched = TRUE]
        L2 == [L1 EXCEPT !.compressed = tostring(data),
                         !.index = IF SharedCursor THEN @ ELSE pos1]
        fp1 == IF SharedCursor THEN pos1 ELSE fp
    IN IF kind = "memmap" /\ cps = None THEN [L |-> Raise(L1, "TypeError"), fp |-> fp]
       ELSE IF h.data_page_header = None THEN [L |-> Raise(L2, "AttributeError"), fp |-> fp1]
       ELSE [L |-> [L2 EXCEPT !.pc = "decode",
                              !.stop = L.start + h.data_page_header[1].num_values,
                              !.sumnv = @ + h.data_page_header[1].num_values,
                              !.yielded = TRUE],
             fp |-> fp1]

\* lines 220-251: the body of the for loop over the pages
decode(L) ==
    LET h == L.header[1]
        schema == SchemaOf(L)
        dc == Decompress(L.decompress, L.compressed)
        uncompressed == dc.val
        deflevelseg == None
        replevelseg == None
        bwdef == bitwidth(schema.maxdef[1])
        bwrep == bitwidth(schema.maxrep[1])
        enc == h.data_page_header[1].encoding
        pl == plain(uncompressed, ChunkOf(L).meta_data.type)
        dataseg == <<pl.val>>
    IN IF dc.err # "" THEN Raise(L, dc.err)
       ELSE IF uncompressed = <<>> /\ ~env.frombuffer_empty THEN Raise(L, "ValueError")
       ELSE IF ~schema.required[1] /\ bwdef.err # "" THEN Raise(L, bwdef.err)
       ELSE IF ~schema.required[1] /\ bwdef.val > 0 THEN Raise(L, "NotImplementedError")
       ELSE IF Len(schema.path) > 1 /\ bwrep.err # "" THEN Raise(L, bwrep.err)
       ELSE IF Len(schema.path) > 1 THEN Raise(L, "NotImplementedError")
       ELSE IF enc = "PLAIN"
            THEN IF pl.err # "" THEN Raise(L, pl.err)
                 ELSE [L EXCEPT !.pc = "next",
                                !.deflevelsegs = AppendSeg(@, L.args.deflevels, deflevelseg),
                                !.replevelsegs = AppendSeg(@, L.args.replevels, replevelseg),
                                !.datasegs = AppendSeg(@, L.args.data, dataseg)]
       ELSE IF enc = "PLAIN_DICTIONARY" THEN Raise(L, "NotImplementedError")
       ELSE Raise(L, "AssertionError")

(***************************** the files ***********************************)
Magics == {m \in [1..4 -> {0, 49, 65, 80, 82}] : Cardinality({i \in 1..4 : m[i] # PAR1[i]}) <= 1}

\* a file: the header magic, the pages, the footer, its length, the footer magic
FileOf(hm, pages, footer, fm) ==
    LET RECURSIVE cells(_)
        cells(i) == IF i > Len(pages) THEN <<>>
                    ELSE <<pages[i].hdr>> \o Bytes(pages[i].payload) \o cells(i + 1)
    IN Bytes(hm) \o cells(1) \o <<footer>> \o Bytes(enc32(1)) \o Bytes(fm)

FileMetaData(schema, columns) ==
    [tag |-> "FileMetaData", schema |-> schema, row_groups |-> <<[columns |-> columns]>>]

\* footers for the constructor: every sequence of up to MaxSchema elements
\* (SchemaFrom of a sequence of repetition types and child counts),
\* well-formed or not
NumChildren == {None} \cup {<<k>> : k \in 0..(MaxSchema - 1)}
SchemaFrom(f) == [i \in 1..Len(f) |-> SchemaElement(FieldNames[i], f[i][1], f[i][2])]

\* the schema of the files the column reads run on:
\*   message root { required a; optional b; required group c { required d } }
ColumnSchema ==
    <<SchemaElement("root", "REQUIRED", <<3>>),
      SchemaElement("a", "REQUIRED", None),
      SchemaElement("b", "OPTIONAL", <<0>>),
      SchemaElement("c", "REQUIRED", <<1>>),
      SchemaElement("d", "REQUIRED", None)>>
ColumnPaths == {<<"a">>, <<"b">>, <<"c", "d">>}

Chunk(path, codec, type, nv) ==
    [file_offset |-> 4,
     meta_data |-> [path_in_schema |-> path, codec |-> codec, type |-> type, num_values |-> nv]]

\* the PLAIN INT32 payload of a page of k values: 256k+1 .. 256k+k
Pay(k) ==
    LET RECURSIVE p(_)
        p(i) == IF i > k THEN <<>> ELSE enc32(256 * k + i) \o p(i + 1)
    IN p(1)
PayValues(k) == [i \in 1..k |-> 256 * k + i]

DataPageHeader(nv, enc) == <<[num_values |-> nv, encoding |-> enc]>>
Page(cps, dph, payload) ==
    [hdr |-> [tag |-> "PageHeader", compressed_page_size |-> cps,
              uncompressed_page_size |-> <<Len(payload)>>, data_page_header |-> dph],
     payload |-> payload]

WellFormedPage(k) == Page(<<4 * k>>, DataPageHeader(k, "PLAIN"), Pay(k))
\* the same page as snappy writes it (one literal element) and as gzip writes
\* it (one member holding a stored deflate block, then CRC-32 and size)
SnappyPage == Page(<<6>>, DataPageHeader(1, "PLAIN"), <<4, 12>> \o Pay(1))
GzipPage ==
    Page(<<27>>, DataPageHeader(1, "PLAIN"),
         <<31, 139, 8, 0, 0, 0, 0, 0, 0, 255, 1, 4, 0, 251, 255>> \o Pay(1)
             \o <<78, 210, 58, 152, 4, 0, 0, 0>>)

PageSet ==
    {WellFormedPage(k) : k \in 0..MaxNumValues}
    \cup {Page(<<4>>, DataPageHeader(1, e), Pay(1)) : e \in {"PLAIN_DICTIONARY", "RLE"}}
    \cup {Page(<<0 - 1>>, DataPageHeader(k, "PLAIN"), Pay(k)) : k \in {0, 1}}
    \cup {Page(None, DataPageHeader(1, "PLAIN"), Pay(1)),
          Page(<<3>>, DataPageHeader(1, "PLAIN"), SubSeq(Pay(1), 1, 3)),
          Page(<<4>>, None, Pay(1))}
PageSeqs == UNION {[1..n -> PageSet] : n \in 0..MaxPages}

CodecTags == Codecs \cup {"UNRECOGNIZED"}
Types == {"BOOLEAN", "INT32", "INT64", "INT96", "FLOAT", "DOUBLE", "BYTE_ARRAY",
          "FIXED_LEN_BYTE_ARRAY", "UNRECOGNIZED"}

Decoy == Chunk(<<"b">>, "UNCOMPRESSED", "INT32", 0)

\* the row groups and pages the column reads run on, as [columns, pages,
\* snappy, frombuffer_empty]: every codec and path over one page; every page
\* sequence and value count over one plain chunk; every type over one page
CodecConfigs ==
    {[columns |-> lead \o <<Chunk(p, c, "INT32", 1)>>, pages |-> <<pg>>,
      snappy |-> sn, frombuffer_empty |-> TRUE] :
        lead \in {<<>>, <<Decoy>>}, p \in ColumnPaths, c \in CodecTags,
        pg \in {WellFormedPage(1), SnappyPage, GzipPage}, sn \in BOOLEAN}
PageConfigs ==
    {[columns |-> <<Chunk(<<"a">>, "UNCOMPRESSED", "INT32", nv)>>, pages |-> ps,
      snappy |-> TRUE, frombuffer_empty |-> fb] :
        nv \in 0..MaxNumValues, ps \in PageSeqs, fb \in BOOLEAN}
TypeConfigs ==
    {[columns |-> <<Chunk(<<"a">>, "UNCOMPRESSED", ty, k)>>, pages |-> <<WellFormedPage(k)>>,
      snappy |-> TRUE, frombuffer_empty |-> TRUE] :
        ty \in Types, k \in 1..MaxNumValues}

AllArgs == [schema : 1..4, deflevels : BOOLEAN, replevels : BOOLEAN, data : BOOLEAN, parallel : BOOLEAN]

\* the arguments a call draws from: all of them when one thread calls; two
\* concurrent calls read a top-level leaf with or without its values
CallArgs ==
    IF Cardinality(callers) <= 1 THEN AllArgs
    ELSE {a \in AllArgs : ~a.parallel /\ a.deflevels /\ a.replevels /\ a.schema \in {1, 2}}

Idle == [t \in Threads |-> IdleThread]

\* the state after ParquetFile(file) over one of the files of configs
InitConstructed(configs, kinds, who) ==
    /\ kind \in kinds
    /\ \E c \in configs :
         /\ bytes = FileOf(PAR1, c.pages, FileMetaData(ColumnSchema, c.columns), PAR1)
         /\ env = [snappy |-> c.snappy, frombuffer_empty |-> c.frombuffer_empty]
    /\ pf = construct(kind, bytes).pf
    /\ filepos = IF kind = "file" THEN construct(kind, bytes).filepos ELSE 0
    /\ callers = who
    /\ thr = Idle

(***************************** the actions *********************************)
Call(t) ==
    /\ pf.status = "open"
    /\ thr[t].pc = "idle"
    /\ \E a \in CallArgs : thr' = [thr EXCEPT ![t] = call(a)]
    /\ UNCHANGED <<kind, bytes, filepos, env, pf, callers>>

Advance(t, r) ==
    /\ thr' = [thr EXCEPT ![t] = r.L]
    /\ filepos' = r.fp
    /\ UNCHANGED <<kind, bytes, env, pf, callers>>

NextPage(t) == thr[t].pc = "next" /\ Advance(t, next_page(thr[t], filepos))

ReadHeader(t) == thr[t].pc = "header" /\ Advance(t, read_header(thr[t], filepos))

ReadPayload(t) == thr[t].pc = "payload" /\ Advance(t, read_payload(thr[t], filepos))

Decode(t) == thr[t].pc = "decode" /\ Advance(t, [L |-> decode(thr[t]), fp |-> filepos])

Next ==
    \/ \E t \in callers : Call(t)
    \/ \E t \in callers : NextPage(t)
    \/ \E t \in callers : ReadHeader(t)
    \/ \E t \in callers : ReadPayload(t)
    \/ \E t \in callers : Decode(t)

\* one thread reading a column of a constructed file
Init == InitConstructed(CodecConfigs \cup PageConfigs \cup TypeConfigs, {"memmap", "file"}, {"t1"})
Spec == Init /\ [][Next]_vars

\* the same, with the thread scheduled as long as it can take a step
SpecFair == Init /\ [][Next]_vars /\ WF_vars(Next)

\* two threads reading columns of one buffer-backed object concurrently
InitPar == InitConstructed(PageConfigs, {"memmap"}, Threads)
SpecPar == InitPar /\ [][Next]_vars

\* the constructor on a file whose magic markers may have been changed
InitOpen ==
    /\ kind \in {"memmap", "file"}
    /\ \E n \in 0..MaxSchema : \E f \in [1..n -> RepTypes \X NumChildren] :
         \E hm, fm \in (IF n <= 1 THEN Magics ELSE {PAR1}) :
             bytes = FileOf(hm, <<>>, FileMetaData(SchemaFrom(f), <<>>), fm)
    /\ env = [snappy |-> TRUE, frombuffer_empty |-> TRUE]
    /\ pf = NewFile
    /\ filepos = 0
    /\ callers = {}
    /\ thr = Idle
SpecOpen == InitOpen /\ [][Construct]_vars

(****************************** the claims *********************************)
Called(t) == thr[t].pc # "idle"
Returned(t) == thr[t].pc = "done" /\ thr[t].outcome.kind = "return"
Raised(t, e) == thr[t].pc = "done" /\ thr[t].outcome.kind = "raise" /\ thr[t].outcome.error = e
Enabled(a) == (IF a.deflevels THEN 1 ELSE 0) + (IF a.replevels THEN 1 ELSE 0) + (IF a.data THEN 1 ELSE 0)

\* the file's magic markers and footer as they lie in the file
HeaderMagic == [i \in 1..4 |-> bytes[i].v]
FooterMagic == [i \in 1..4 |-> bytes[Len(bytes) - 4 + i].v]
RawFooter == bytes[Len(bytes) - 8]
\* the chunks of the row group whose path is the path of thread t's schema
Matching(t) ==
    {i \in 1..Len(Columns) : Columns[i].meta_data.path_in_schema = SchemaOf(thr[t]).path}

\* C1 as stated: ParquetFile.column always returns a tuple of length 3,
\* whatever the deflevels/replevels/data switches are.
C1_AlwaysThreeSlots ==
    \A t \in Threads : Returned(t) => Len(thr[t].outcome.out) = 3

\* C1 amended: the tuple returned has one slot per switch turned on, in the
\* order (definition levels, repetition levels, values); a switch turned off
\* removes its slot; an enabled slot whose segment no page produced is None,
\* and the values slot holds an array exactly when a page was decoded.
C1_OneSlotPerEnabledSwitch ==
    \A t \in Threads : Returned(t) =>
        LET a == thr[t].args
            o == thr[t].outcome.out
        IN /\ Len(o) = Enabled(a)
           /\ a.deflevels => o[1] = None
           /\ a.replevels => o[IF a.deflevels THEN 2 ELSE 1] = None
           /\ a.data => /\ (o[Len(o)] = None) = ~thr[t].yielded
                        /\ o[Len(o)] # None => Len(o[Len(o)]) = 1

C1_Witness ==
    \E t \in Threads : /\ Returned(t)
                       /\ ~thr[t].args.deflevels /\ thr[t].args.replevels /\ thr[t].args.data
                       /\ thr[t].outcome.out = <<None, <<PayValues(1)>>>>

\* C2: a file whose first or last 4 bytes are not "PAR1" makes the
\* constructor fail with ValueError, on both handles, with no footer parsed
\* and no object produced.
C2_BadMagicIsValueError ==
    (pf.status # "new" /\ (HeaderMagic # <<80, 65, 82, 49>> \/ FooterMagic # <<80, 65, 82, 49>>))
        => /\ pf.status = "failed"
           /\ pf.error = <<"ValueError">>
           /\ pf.footer = None
           /\ pf.fields = None

C2_Witness ==
    /\ kind = "file"
    /\ HeaderMagic = <<80, 65, 82, 49>> /\ FooterMagic = <<80, 65, 82, 0>>
    /\ pf.status = "failed" /\ pf.error = <<"ValueError">>

\* C3: a chunk whose codec is LZO, BROTLI, LZ4 or ZSTD fails with
\* NotImplementedError, a chunk whose codec tag is none of the seven codecs
\* fails with AssertionError, and in both cases no page header or payload of
\* the chunk has been read.
C3_CodecErrorKinds ==
    \A t \in Threads :
        (Called(t) /\ ~thr[t].args.parallel /\ Matching(t) # {}) =>
            LET i == CHOOSE j \in Matching(t) : \A k \in Matching(t) : j <= k
                codec == Columns[i].meta_data.codec
            IN /\ codec \in {"LZO", "BROTLI", "LZ4", "ZSTD"}
                   => Raised(t, "NotImplementedError") /\ ~thr[t].touched
               /\ codec \notin Codecs
                   => Raised(t, "AssertionError") /\ ~thr[t].touched

C3_Witness ==
    \E t \in Threads : /\ Raised(t, "NotImplementedError") /\ ~thr[t].touched
                       /\ thr[t].footercolumn # None
                       /\ ChunkOf(thr[t]).meta_data.codec = "ZSTD"

\* C4: a leaf schema whose path is the path_in_schema of no chunk of the row
\* group makes column fail with an AssertionError, before any page is read.
C4_NotFoundIsAssertionError ==
    \A t \in Threads :
        (Called(t) /\ ~thr[t].args.parallel /\ Matching(t) = {})
            => Raised(t, "AssertionError") /\ ~thr[t].touched

\* the value ranges yielded begin at 0, are contiguous and advance by the
\* page header's num_values
ValueRanges(t) ==
    thr[t].pc = "decode" =>
        LET nv == thr[t].header[1].data_page_header[1].num_values
        IN /\ thr[t].stop = thr[t].start + nv
           /\ thr[t].stop = thr[t].sumnv

\* C5 as stated: the ranges are contiguous from 0, and when the reader
\* finishes the page num_values sum to the chunk's num_values exactly.
C5_SumIsExactlyNumValues ==
    \A t \in Threads :
        /\ ValueRanges(t)
        /\ Returned(t) => thr[t].sumnv = ChunkOf(thr[t]).meta_data.num_values

\* C5 amended: the ranges are contiguous from 0 and advance by num_values;
\* when the reader finishes, the page num_values sum to at least the chunk's
\* num_values, and the last page began below it (the final stop exceeds
\* num_values when the last page overshoots).
C5_SumReachesNumValues ==
    \A t \in Threads :
        /\ ValueRanges(t)
        /\ Returned(t) =>
              /\ thr[t].sumnv >= ChunkOf(thr[t]).meta_data.num_values
              /\ thr[t].yielded =>
                    thr[t].sumnv - thr[t].header[1].data_page_header[1].num_values
                        < ChunkOf(thr[t]).meta_data.num_values

C5_Witness ==
    \E t \in Threads : /\ Returned(t) /\ kind = "file"
                       /\ ChunkOf(thr[t]).meta_data.num_values = 1
                       /\ thr[t].sumnv = 2 /\ thr[t].stop = 2

\* C6: reading a top-level OPTIONAL leaf (maxdef 1) stored UNCOMPRESSED/PLAIN
\* with no nulls, with deflevels=True, returns a definition-level array with
\* one entry per value, all 1, alongside the values.
C6_OptionalLeafReads ==
    \A t \in Threads :
        (/\ thr[t].pc = "done" /\ thr[t].args.schema = 2
         /\ thr[t].args.deflevels /\ thr[t].args.data /\ ~thr[t].args.parallel
         /\ RawFooter.row_groups[1].columns = <<Chunk(<<"b">>, "UNCOMPRESSED", "INT32", 1)>>
         /\ At(bytes, 4) = WellFormedPage(1).hdr)
        => /\ Returned(t)
           /\ thr[t].outcome.out[1] = <<[i \in 1..1 |-> 1]>>
           /\ thr[t].outcome.out[Len(thr[t].outcome.out)] = <<PayValues(1)>>

\* C6 amended: reading a top-level OPTIONAL leaf stored UNCOMPRESSED/PLAIN
\* fails with NotImplementedError at its first page (level decoding is not
\* implemented), whatever the switches; no definition levels are returned.
C6_OptionalLeafNotImplemented ==
    \A t \in Threads :
        (/\ thr[t].pc = "done" /\ thr[t].args.schema = 2 /\ ~thr[t].args.parallel
         /\ thr[t].yielded /\ thr[t].compressed # <<>>
         /\ ChunkOf(thr[t]).meta_data.codec = "UNCOMPRESSED")
        => /\ Raised(t, "NotImplementedError")
           /\ thr[t].deflevelsegs = None /\ thr[t].datasegs = None

C6_Witness ==
    \E t \in Threads :
        /\ Raised(t, "NotImplementedError") /\ thr[t].args.schema = 2
        /\ thr[t].args.deflevels /\ thr[t].args.data /\ ~thr[t].args.parallel
        /\ RawFooter.row_groups[1].columns = <<Chunk(<<"b">>, "UNCOMPRESSED", "INT32", 1)>>
        /\ At(bytes, 4) = WellFormedPage(1).hdr
        /\ thr[t].yielded /\ thr[t].compressed = Pay(1)

\* C7: a top-level REQUIRED PLAIN column stored with GZIP is read without
\* error and gives the values the same data gives stored UNCOMPRESSED.
C7_GzipReads ==
    \A t \in Threads :
        (/\ thr[t].pc = "done" /\ thr[t].args.schema = 1
         /\ thr[t].args.data /\ ~thr[t].args.parallel
         /\ RawFooter.row_groups[1].columns = <<Chunk(<<"a">>, "GZIP", "INT32", 1)>>
         /\ At(bytes, 4) = GzipPage.hdr)
        => /\ Returned(t)
           /\ thr[t].outcome.out[Len(thr[t].outcome.out)] = <<PayValues(1)>>

\* one call of column run alone from the state L its first lines leave
step(L, fp) ==
    CASE L.pc = "next" -> next_page(L, fp)
      [] L.pc = "header" -> read_header(L, fp)
      [] L.pc = "payload" -> read_payload(L, fp)
      [] L.pc = "decode" -> [L |-> decode(L), fp |-> fp]
RECURSIVE RunAlone(_, _, _)
RunAlone(L, fp, fuel) ==
    IF L.pc = "done" THEN L.outcome
    ELSE IF fuel = 0 THEN [kind |-> "diverges", error |-> "", out |-> <<>>]
    ELSE LET r == step(L, fp) IN RunAlone(r.L, r.fp, fuel - 1)
Fuel == 4 * (Len(bytes) + 1) * (MaxNumValues + 2)

C8_Results ==
    \A t \in Threads :
        (kind = "memmap" /\ thr[t].pc = "done")
            => thr[t].outcome = RunAlone(call(thr[t].args), filepos, Fuel)

\* C8: on a buffer-backed object, column reads interleaved at any point each
\* return what they return when run alone, and no step of a read writes the
\* shared buffer or the footer with its flattened schema.
C8_ConcurrentReadsIsolated ==
    /\ []C8_Results
    /\ [][kind = "memmap" => (bytes' = bytes /\ pf' = pf)]_vars

C8_Witness ==
    /\ kind = "memmap"
    /\ Returned("t1") /\ thr["t1"].outcome.out = <<None, None, <<PayValues(1) \o PayValues(2)>>>>
    /\ thr["t2"].pc = "payload" /\ thr["t2"].start = 1

\* a schema sequence is a well-formed pre-order listing: the children
\* declared so far always leave an element to come, and none at the end
NumChildrenOf(e) == IF e.num_children = None THEN 0 ELSE e.num_children[1]
RECURSIVE Excess(_, _, _)
Excess(s, j, m) == IF m < j THEN 0 ELSE NumChildrenOf(s[m]) - 1 + Excess(s, j, m - 1)
WellFormedSchema(s) ==
    /\ Len(s) >= 1
    /\ Excess(s, 1, Len(s)) = 0 - 1
    /\ \A m \in 1..(Len(s) - 1) : Excess(s, 1, m) >= 0
InSubtree(s, j, i) == \A m \in j..(i - 1) : Excess(s, j, m) >= 0
TreeParent(s, i) ==
    CHOOSE j \in 1..(i - 1) : InSubtree(s, j, i) /\ \A k \in (j + 1)..(i - 1) : ~InSubtree(s, k, i)

\* C9: over a well-formed schema sequence every element but the root is
\* visited exactly once and gets maxdef = its parent's + (0 if REQUIRED else
\* 1) and maxrep = its parent's + (1 if REQUIRED else 0), the root's children
\* starting from (0, 0); neither decreases from parent to child; self.fields
\* is the root's direct children in order.
C9_SchemaLevels ==
    (pf.status # "new" /\ HeaderMagic = <<80, 65, 82, 49>> /\ FooterMagic = <<80, 65, 82, 49>>
     /\ WellFormedSchema(RawFooter.schema)) =>
        /\ pf.status = "open"
        /\ LET raw == RawFooter.schema
               sc == pf.footer[1].schema
               n == Len(sc)
               pd(i) == IF TreeParent(raw, i) = 1 THEN 0 ELSE sc[TreeParent(raw, i)].maxdef[1]
               pr(i) == IF TreeParent(raw, i) = 1 THEN 0 ELSE sc[TreeParent(raw, i)].maxrep[1]
           IN /\ n = Len(raw)
              /\ sc[1].visits = 0
              /\ \A i \in 2..n :
                    /\ sc[i].visits = 1
                    /\ sc[i].maxdef = <<pd(i) + (IF raw[i].repetition_type = "REQUIRED" THEN 0 ELSE 1)>>
                    /\ sc[i].maxrep = <<pr(i) + (IF raw[i].repetition_type = "REQUIRED" THEN 1 ELSE 0)>>
                    /\ sc[i].maxdef[1] >= pd(i) /\ sc[i].maxrep[1] >= pr(i)
              /\ pf.fields = <<SelectSeq([i \in 1..(n - 1) |-> i],
                                         LAMBDA i : TreeParent(raw, i + 1) = 1)>>

C9_Witness ==
    /\ pf.status = "open"
    /\ WellFormedSchema(RawFooter.schema)
    /\ Len(pf.footer[1].schema) = 3
    /\ pf.footer[1].schema[3].maxdef = <<2>>
    /\ pf.footer[1].schema[3].path = <<"a", "b">>
    /\ pf.fields = <<<<1>>>>

\* C10: every call of column eventually returns or raises.
C10_ColumnTerminates ==
    \A t \in Threads : Called(t) ~> (thr[t].pc = "done")

====
